---------------------------- MODULE Spec2Model ----------------------------
(***************************************************************************)
(* Model of src/app.py: the YouTube channel growth dashboard.              *)
(*                                                                         *)
(* The program is a library of three functions (parse_date,                *)
(* search_channels with its helper get_channel_stats,                      *)
(* analyze_channels_growth) and a Streamlit entry point main().  The model *)
(* lets each of them be called once from the idle state with inputs drawn  *)
(* from small sets, and follows the code statement by statement: one       *)
(* action per upstream request and per loop iteration.                     *)
(*                                                                         *)
(* Time.  A datetime is a count of ticks, the finest resolution of the     *)
(* model (Python: one microsecond), plus the flag that tells a naive       *)
(* datetime from a timezone-aware one.  A second is TicksPerSec ticks and  *)
(* a day is SecsPerDay seconds.                                            *)
(*                                                                         *)
(* Numbers.  Python's true division yields a float; the model keeps the    *)
(* exact quotient as a reduced fraction.  Inside the bounds of the model   *)
(* two quotients are equal as floats exactly when they are equal as        *)
(* fractions, and rounding is monotone, so order and ties are the same.    *)
(*                                                                         *)
(* Fields the code only copies (title, video_count, channel_name) are left *)
(* out of the records.                                                     *)
(***************************************************************************)
EXTENDS Integers, Sequences, FiniteSets, TLC

VARIABLES
    entry,           \* the function called from the top level
    pc,              \* position in the code
    exc,             \* the exception that ended the call, or "none"
    date_str,        \* parse_date: its argument
    parsed,          \* parse_date: << >> or <<the datetime returned>>
    query,           \* search_channels / main: the query text
    max_results,     \* search_channels: maxResults
    min_date,        \* search_channels: << >> (None) or <<datetime>>
    max_date,        \* search_channels: << >> (None) or <<datetime>>
    items,           \* response['items'] of the search request: channel ids
    idx,             \* search_channels: matches whose stats request was answered
    channels,        \* search_channels: the list built; analyze: its argument
    search_ret,      \* << >> or <<the list search_channels returned>>
    aidx,            \* analyze_channels_growth: passes of its loop executed
    results,         \* analyze_channels_growth: the list built
    analyze_ret,     \* << >> or <<the list analyze_channels_growth returned>>
    started_at,      \* the clock when analyze_channels_growth was entered
    clock,           \* the last value datetime.now() returned
    searchRequests,  \* search().list(...).execute() calls issued
    statsLog,        \* the channel ids of the channels().list(...).execute()
                     \* calls issued, in order
    analyzeCalls,    \* calls of analyze_channels_growth
    ui               \* what main() has written to the page, in order

vars == <<entry, pc, exc, date_str, parsed, query, max_results, min_date,
          max_date, items, idx, channels, search_ret, aidx, results,
          analyze_ret, started_at, clock, searchRequests, statsLog, analyzeCalls, ui>>

----------------------------------------------------------------------------
(* Bounds of the model *)

\* Longest response['items'] the upstream returns, and longest argument of
\* a direct call of analyze_channels_growth.
MaxItems == 3

\* Ticks in a second: the resolution of the fractional part of a timestamp.
TicksPerSec == 2

\* Seconds in a day.
SecsPerDay == 2

TicksPerDay == TicksPerSec * SecsPerDay

\* The first tick of day d.
Day(d) == d * TicksPerDay

----------------------------------------------------------------------------
(* Timestamp strings *)

\* A timestamp string, by its parts: "<date+time to the second><sep between
\* date and time><.fraction or nothing><timezone designator>".  whole is the
\* date and time in seconds, frac the fraction in ticks (-1: no fraction
\* written), tz the designator ("" for none).  form "garbage" is any text
\* that is no ISO-8601 timestamp.
Iso(whole, frac, sep, tz) ==
    [form |-> "iso", whole |-> whole, frac |-> frac, sep |-> sep, tz |-> tz]

Garbage == [form |-> "garbage", whole |-> 0, frac |-> -1, sep |-> "T", tz |-> ""]

\* The instant a timestamp string denotes, in ticks (UTC; a string without a
\* designator is taken as UTC).  This is the meaning of the text, not the
\* parser.
InstantOf(s) == s.whole * TicksPerSec + (IF s.frac < 0 THEN 0 ELSE s.frac)

----------------------------------------------------------------------------
(* datetime *)

Naive(t) == [t |-> t, aware |-> FALSE]

Aware(t) == [t |-> t, aware |-> TRUE]

NoDatetime == Naive(0)

\* The outcome of an expression: the exception raised ("none" when it
\* returned) and the value.
Returned(v) == [exc |-> "none", val |-> v]

Raised(e) == [exc |-> e, val |-> NoDatetime]

\* datetime.strptime(date_str, '%Y-%m-%dT%H:%M:%S.%fZ')
StrptimeFrac(s) ==
    IF s.form = "iso" /\ s.sep = "T" /\ s.frac >= 0 /\ s.tz = "Z"
    THEN Returned(Naive(s.whole * TicksPerSec + s.frac))
    ELSE Raised("ValueError")

\* datetime.strptime(date_str, '%Y-%m-%dT%H:%M:%SZ')
StrptimeSec(s) ==
    IF s.form = "iso" /\ s.sep = "T" /\ s.frac < 0 /\ s.tz = "Z"
    THEN Returned(Naive(s.whole * TicksPerSec))
    ELSE Raised("ValueError")

\* date_str.replace('Z', '+00:00')
ReplaceZ(s) == IF s.tz = "Z" THEN [s EXCEPT !.tz = "+00:00"] ELSE s

\* datetime.fromisoformat: any one character separates date and time, the
\* fraction and the offset are optional; a string with an offset yields an
\* aware datetime.  A bare 'Z' is no offset for it.
FromIsoFormat(s) ==
    IF s.form = "iso" /\ s.tz \in {"", "+00:00"}
    THEN LET t == s.whole * TicksPerSec + (IF s.frac < 0 THEN 0 ELSE s.frac)
         IN  Returned(IF s.tz = "" THEN Naive(t) ELSE Aware(t))
    ELSE Raised("ValueError")

\* A bug parse_date could have: an unrecognised timestamp becomes the epoch.
ParseFallbackDefaultsToEpoch(s) ==
    LET r == FromIsoFormat(ReplaceZ(s))
    IN  IF r.exc = "none" THEN r ELSE Returned(Naive(0))

\* The last fallback of parse_date.
ParseFallback(s) == FromIsoFormat(ReplaceZ(s))

parse_date(s) ==
    LET a == StrptimeFrac(s)
        b == StrptimeSec(s)
    IN  IF a.exc = "none" THEN a
        ELSE IF b.exc = "none" THEN b
        ELSE ParseFallback(s)

\* a == b on datetimes: a naive and an aware datetime are never equal.
DatetimeEq(a, b) == a.aware = b.aware /\ a.t = b.t

\* a < b, a > b and a - b raise TypeError when one is naive and one aware.
Mixed(a, b) == a.aware # b.aware

\* (a - b).days: timedelta keeps days as the floor of the difference.
DaysBetween(a, b) == (a.t - b.t) \div TicksPerDay

----------------------------------------------------------------------------
(* The upstream service *)

\* What channels().list(id=...) answers for each channel id: found = FALSE is
\* an answer with no items.  Days are counted from an arbitrary day 0; the
\* analysis runs during day 3.
Channel(id, subs, views, published_at) ==
    [channel_id |-> id, found |-> TRUE, subscriber_count |-> subs,
     view_count |-> views, published_at |-> published_at]

Catalogue ==
    {   \* two days old, written without a designator
        Channel("UC_old", 2, 6, Iso(1 * SecsPerDay, -1, "T", "")),
        \* created at the first tick of day 2, written with a fraction
        Channel("UC_tie", 1, 9, Iso(2 * SecsPerDay, 0, "T", "Z")),
        \* created at the last tick of day 2
        Channel("UC_edge", 3, 3, Iso(3 * SecsPerDay - 1, TicksPerSec - 1, "T", "Z")),
        \* created at the first tick of day 3
        Channel("UC_today", 5, 5, Iso(3 * SecsPerDay, -1, "T", "Z")),
        \* created on day 4, after the analysis
        Channel("UC_future", 1, 1, Iso(4 * SecsPerDay, -1, "T", "Z")),
        \* a blank between date and time, and the 'Z' designator
        Channel("UC_blank", 1, 2, Iso(1 * SecsPerDay, -1, " ", "Z")),
        \* a creation date that is no timestamp
        Channel("UC_garbage", 4, 4, Garbage),
        \* no such channel
        [Channel("UC_gone", 0, 0, Garbage) EXCEPT !.found = FALSE]
    }

ChannelIds == {c.channel_id : c \in Catalogue}

StatsOf(id) == CHOOSE c \in Catalogue : c.channel_id = id

\* The values datetime.now() takes during the analysis: the first and the
\* last tick of day 3.
NowValues == {Day(3), Day(4) - 1}

SeqsUpTo(S, n) == UNION {[1..k -> S] : k \in 0..n}

Min(a, b) == IF a < b THEN a ELSE b

\* The possible response['items'] of search().list(q=query, type="channel",
\* maxResults=max_results): the service returns at most maxResults matches.
SearchListResponses(maxResults) == SeqsUpTo(ChannelIds, Min(maxResults, MaxItems))

\* A bug get_channel_stats could have: the request is executed twice.
IssueStatsRequestTwice(log, channel_id) == Append(Append(log, channel_id), channel_id)

\* get_channel_stats: request.execute() is called for channel_id.
IssueStatsRequest(log, channel_id) == Append(log, channel_id)

\* get_channel_stats(channel_id): None (here << >>) when the answer has no
\* items, else the summary built from statistics and snippet.
get_channel_stats(channel_id) ==
    LET answer == StatsOf(channel_id)
    IN  IF ~answer.found THEN << >>
        ELSE <<[channel_id |-> channel_id,
                subscriber_count |-> answer.subscriber_count,
                view_count |-> answer.view_count,
                published_at |-> answer.published_at]>>

\* The summaries a caller can hand to analyze_channels_growth.
Summaries == {get_channel_stats(id)[1] : id \in {c \in ChannelIds : StatsOf(c).found}}

----------------------------------------------------------------------------
(* search_channels: the date filter *)

\* "if min_date and published_at < min_date: continue"
BelowMin(published_at, lo) == lo # << >> /\ published_at.t < lo[1].t

\* A bug the filter could have: the upper end exclusive.
AboveMaxExclusive(published_at, hi) == hi # << >> /\ published_at.t >= hi[1].t

\* "if max_date and published_at > max_date: continue"
AboveMax(published_at, hi) == hi # << >> /\ published_at.t > hi[1].t

\* One pass of the loop body on channel_info: "raise" with the exception,
\* "skip" (continue) or "keep" (append).
FilterOutcome(channel_info, lo, hi) ==
    LET p == parse_date(channel_info.published_at)
    IN  IF p.exc # "none" THEN [do |-> "raise", exc |-> p.exc]
        ELSE IF lo # << >> /\ Mixed(p.val, lo[1]) THEN [do |-> "raise", exc |-> "TypeError"]
        ELSE IF BelowMin(p.val, lo) THEN [do |-> "skip", exc |-> "none"]
        ELSE IF hi # << >> /\ Mixed(p.val, hi[1]) THEN [do |-> "raise", exc |-> "TypeError"]
        ELSE IF AboveMax(p.val, hi) THEN [do |-> "skip", exc |-> "none"]
        ELSE [do |-> "keep", exc |-> "none"]

----------------------------------------------------------------------------
(* analyze_channels_growth: one record, and the sort *)

Abs(n) == IF n < 0 THEN -n ELSE n

RECURSIVE GCD(_, _)
GCD(a, b) == IF b = 0 THEN a ELSE GCD(b, a % b)

\* n / d for d # 0, as a reduced fraction with a positive denominator.
Quotient(n, d) ==
    LET g == GCD(Abs(n), Abs(d))
        s == IF d < 0 THEN -1 ELSE 1
    IN  [num |-> (s * n) \div g, den |-> Abs(d) \div g]

Times100(q) == Quotient(q.num * 100, q.den)

RateLess(a, b) == a.num * b.den < b.num * a.den

\* The dict appended for a channel whose elapsed days are not zero.
GrowthRecord(channel, days_since_creation) ==
    [channel_id |-> channel.channel_id,
     current_subs |-> channel.subscriber_count,
     current_views |-> channel.view_count,
     published_at |-> channel.published_at,
     days_since_creation |-> days_since_creation,
     daily_subs |-> Quotient(channel.subscriber_count, days_since_creation),
     daily_views |-> Quotient(channel.view_count, days_since_creation),
     growth_rate |-> Times100(Quotient(channel.subscriber_count, days_since_creation))]

\* One pass of the loop body with datetime.now() = now.
AnalyzeOutcome(channel, now) ==
    LET p == parse_date(channel.published_at)
    IN  IF p.exc # "none" THEN [exc |-> p.exc, rec |-> << >>]
        ELSE IF Mixed(Naive(now), p.val) THEN [exc |-> "TypeError", rec |-> << >>]
        ELSE LET days == DaysBetween(Naive(now), p.val)
             IN  IF days = 0 THEN [exc |-> "ZeroDivisionError", rec |-> << >>]
                 ELSE [exc |-> "none", rec |-> <<GrowthRecord(channel, days)>>]

\* A bug the loop could have: a channel id already listed is not appended.
AppendRecordOnce(rs, rec) ==
    IF \E i \in 1..Len(rs) : rs[i].channel_id = rec.channel_id THEN rs ELSE Append(rs, rec)

\* results.append(...)
AppendRecord(rs, rec) == Append(rs, rec)

\* r goes before the first record with a smaller growth_rate, so after every
\* record with an equal one.
RECURSIVE InsertByRate(_, _)
InsertByRate(sorted, r) ==
    IF sorted = << >> THEN <<r>>
    ELSE IF RateLess(Head(sorted).growth_rate, r.growth_rate)
         THEN <<r>> \o sorted
         ELSE <<Head(sorted)>> \o InsertByRate(Tail(sorted), r)

RECURSIVE SortedFrom(_, _)
SortedFrom(done, rest) ==
    IF rest = << >> THEN done
    ELSE SortedFrom(InsertByRate(done, Head(rest)), Tail(rest))

\* A sort that puts r before the records with an equal growth_rate.
RECURSIVE InsertBeforeEqual(_, _)
InsertBeforeEqual(sorted, r) ==
    IF sorted = << >> THEN <<r>>
    ELSE IF ~RateLess(r.growth_rate, Head(sorted).growth_rate)
         THEN <<r>> \o sorted
         ELSE <<Head(sorted)>> \o InsertBeforeEqual(Tail(sorted), r)

RECURSIVE UnstableFrom(_, _)
UnstableFrom(done, rest) ==
    IF rest = << >> THEN done
    ELSE UnstableFrom(InsertBeforeEqual(done, Head(rest)), Tail(rest))

\* Bugs the sort could have: ties reversed; no sort at all.
SortReversingTies(rs) == UnstableFrom(<< >>, rs)

SortForgotten(rs) == rs

\* results.sort(key=lambda x: x['growth_rate'], reverse=True): list.sort is
\* stable, and stays so with reverse=True.
SortByGrowthRate(rs) == SortedFrom(<< >>, rs)

----------------------------------------------------------------------------
(* Inputs *)

\* The arguments of a direct call of parse_date: every timestamp of days 0
\* to 4 in every way of writing it, and a text that is no timestamp.
DateStrings ==
    {Iso(w, f, sep, tz) : w \in 0..(4 * SecsPerDay), f \in -1..(TicksPerSec - 1),
                          sep \in {"T", " "}, tz \in {"Z", "", "+00:00"}}
    \cup {Garbage}

\* max_results of a direct call of search_channels.
MaxResultsValues == {1, 2, 50}

\* The slider of main(): st.sidebar.slider(..., 5, 50, 20).
SliderValues == {5, 50}

\* min_date and max_date of a direct call: None, or the first tick of day 2
\* and the last tick of day 2.
MinDates == {<< >>, <<Naive(Day(2))>>}

MaxDates == {<< >>, <<Naive(Day(3) - 1)>>}

\* The days the user picks in the two date inputs of main().
StartDays == {0, 2}

EndDays == {2, 4}

\* datetime.combine(min_date, datetime.min.time())
CombineMin(day) == Naive(Day(day))

\* datetime.combine(max_date, datetime.max.time()): 23:59:59.999999
CombineMax(day) == Naive(Day(day) + TicksPerDay - 1)

Queries == {"", "cooking"}

----------------------------------------------------------------------------
(* The state after the module is loaded *)

Init ==
    /\ entry = "none"
    /\ pc = "idle"
    /\ exc = "none"
    /\ date_str = Garbage
    /\ parsed = << >>
    /\ query = ""
    /\ max_results = 0
    /\ min_date = << >>
    /\ max_date = << >>
    /\ items = << >>
    /\ idx = 0
    /\ channels = << >>
    /\ search_ret = << >>
    /\ aidx = 0
    /\ results = << >>
    /\ analyze_ret = << >>
    /\ started_at = Day(3)
    /\ clock = Day(3)
    /\ searchRequests = 0
    /\ statsLog = << >>
    /\ analyzeCalls = 0
    /\ ui = << >>

searchVars == <<query, max_results, min_date, max_date, items, idx, search_ret,
                searchRequests, statsLog>>

analyzeVars == <<aidx, results, analyze_ret, started_at, clock, analyzeCalls>>

parseVars == <<date_str, parsed>>

----------------------------------------------------------------------------
(* parse_date called directly *)

CallParseDate ==
    /\ pc = "idle"
    /\ \E s \in DateStrings :
          LET r == parse_date(s)
          IN  /\ date_str' = s
              /\ exc' = r.exc
              /\ parsed' = IF r.exc = "none" THEN <<r.val>> ELSE << >>
    /\ entry' = "parse_date"
    /\ pc' = "done"
    /\ UNCHANGED <<searchVars, analyzeVars, channels, ui>>

----------------------------------------------------------------------------
(* search_channels *)

\* search_channels(query, max_results, min_date, max_date) called directly:
\* channels = [] and the request is built.
CallSearchChannels ==
    /\ pc = "idle"
    /\ \E q \in Queries, m \in MaxResultsValues, lo \in MinDates, hi \in MaxDates :
          /\ query' = q
          /\ max_results' = m
          /\ min_date' = lo
          /\ max_date' = hi
    /\ entry' = "search_channels"
    /\ pc' = "search_request"
    /\ channels' = << >>
    /\ UNCHANGED <<exc, parseVars, items, idx, search_ret, searchRequests,
                   statsLog, analyzeVars, ui>>

\* response = request.execute() answers.
SearchRequest ==
    /\ pc = "search_request"
    /\ \E response \in SearchListResponses(max_results) : items' = response
    /\ searchRequests' = searchRequests + 1
    /\ idx' = 0
    /\ pc' = "search_loop"
    /\ UNCHANGED <<entry, exc, parseVars, query, max_results, min_date, max_date,
                   channels, search_ret, statsLog, analyzeVars, ui>>

\* response = request.execute() raises (network, credential, quota).
SearchRequestFails ==
    /\ pc = "search_request"
    /\ searchRequests' = searchRequests + 1
    /\ exc' = "HttpError"
    /\ pc' = "done"
    /\ UNCHANGED <<entry, parseVars, query, max_results, min_date, max_date, items,
                   idx, channels, search_ret, statsLog, analyzeVars, ui>>

\* One pass of "for item in response['items']": the stats request, then the
\* date filter.
SearchStep ==
    /\ pc = "search_loop"
    /\ idx < Len(items)
    /\ statsLog' = IssueStatsRequest(statsLog, items[idx + 1])
    /\ idx' = idx + 1
    /\ LET channel_info == get_channel_stats(items[idx + 1])
       IN  IF channel_info = << >>
           THEN UNCHANGED <<exc, pc, channels>>
           ELSE LET out == FilterOutcome(channel_info[1], min_date, max_date)
                IN  /\ exc' = out.exc
                    /\ pc' = IF out.do = "raise" THEN "done" ELSE pc
                    /\ channels' = IF out.do = "keep"
                                   THEN Append(channels, channel_info[1])
                                   ELSE channels
    /\ UNCHANGED <<entry, parseVars, query, max_results, min_date, max_date, items,
                   search_ret, searchRequests, analyzeVars, ui>>

\* The stats request of one pass raises.
StatsRequestFails ==
    /\ pc = "search_loop"
    /\ idx < Len(items)
    /\ statsLog' = IssueStatsRequest(statsLog, items[idx + 1])
    /\ exc' = "HttpError"
    /\ pc' = "done"
    /\ UNCHANGED <<entry, parseVars, query, max_results, min_date, max_date, items,
                   idx, channels, search_ret, searchRequests, analyzeVars, ui>>

\* "return channels"
SearchReturn ==
    /\ pc = "search_loop"
    /\ idx = Len(items)
    /\ search_ret' = <<channels>>
    /\ pc' = IF entry = "main" THEN "main_after_search" ELSE "done"
    /\ UNCHANGED <<entry, exc, parseVars, query, max_results, min_date, max_date,
                   items, idx, channels, searchRequests, statsLog,
                   analyzeVars, ui>>

----------------------------------------------------------------------------
(* analyze_channels_growth *)

\* The clock never runs backwards.
LaterNow == {n \in NowValues : n >= clock}

\* analyze_channels_growth(channels) called directly: results = [].
CallAnalyze ==
    /\ pc = "idle"
    /\ \E chs \in SeqsUpTo(Summaries, MaxItems) : channels' = chs
    /\ \E n \in LaterNow : clock' = n /\ started_at' = n
    /\ entry' = "analyze_channels_growth"
    /\ pc' = "analyze_loop"
    /\ aidx' = 0
    /\ results' = << >>
    /\ analyzeCalls' = analyzeCalls + 1
    /\ UNCHANGED <<exc, parseVars, searchVars, analyze_ret, ui>>

\* One pass of "for channel in channels", with datetime.now() read in it.
AnalyzeStep ==
    /\ pc = "analyze_loop"
    /\ aidx < Len(channels)
    /\ aidx' = aidx + 1
    /\ \E now \in LaterNow :
          LET out == AnalyzeOutcome(channels[aidx + 1], now)
          IN  /\ clock' = now
              /\ exc' = out.exc
              /\ pc' = IF out.exc # "none" THEN "done" ELSE pc
              /\ results' = IF out.exc # "none" THEN results
                            ELSE AppendRecord(results, out.rec[1])
    /\ UNCHANGED <<entry, parseVars, searchVars, channels, analyze_ret,
                   started_at, analyzeCalls, ui>>

\* results.sort(...); return results
AnalyzeReturn ==
    /\ pc = "analyze_loop"
    /\ aidx = Len(channels)
    /\ results' = SortByGrowthRate(results)
    /\ analyze_ret' = <<results'>>
    /\ pc' = IF entry = "main" THEN "main_render" ELSE "done"
    /\ UNCHANGED <<entry, exc, parseVars, searchVars, channels, aidx, started_at,
                   clock, analyzeCalls, ui>>

----------------------------------------------------------------------------
(* main: one press of the button *)

\* The button is pressed with no query: st.warning(...).
MainEmptyQuery ==
    /\ pc = "idle"
    /\ entry' = "main"
    /\ query' = ""
    /\ ui' = Append(ui, "warning_enter_query")
    /\ pc' = "done"
    /\ UNCHANGED <<exc, parseVars, max_results, min_date, max_date, items, idx,
                   channels, search_ret, searchRequests, statsLog, analyzeVars>>

\* The button is pressed with a query: search_channels(search_query,
\* max_results, min_date=combine(...), max_date=combine(...)) is entered.
MainSearch ==
    /\ pc = "idle"
    /\ \E q \in Queries \ {""}, m \in SliderValues, d1 \in StartDays, d2 \in EndDays :
          /\ query' = q
          /\ max_results' = m
          /\ min_date' = <<CombineMin(d1)>>
          /\ max_date' = <<CombineMax(d2)>>
    /\ entry' = "main"
    /\ pc' = "search_request"
    /\ channels' = << >>
    /\ UNCHANGED <<exc, parseVars, items, idx, search_ret, searchRequests,
                   statsLog, analyzeVars, ui>>

\* "if channels:" is false: st.error(...).
MainNoChannels ==
    /\ pc = "main_after_search"
    /\ channels = << >>
    /\ ui' = Append(ui, "error_no_channels")
    /\ pc' = "done"
    /\ UNCHANGED <<entry, exc, parseVars, searchVars, channels, analyzeVars>>

\* "if channels:" is true: st.success(...), then
\* analyze_channels_growth(channels) is entered.
MainAnalyze ==
    /\ pc = "main_after_search"
    /\ channels # << >>
    /\ ui' = Append(ui, "success_found")
    /\ \E n \in LaterNow : clock' = n /\ started_at' = n
    /\ pc' = "analyze_loop"
    /\ aidx' = 0
    /\ results' = << >>
    /\ analyzeCalls' = analyzeCalls + 1
    /\ UNCHANGED <<entry, exc, parseVars, searchVars, channels, analyze_ret>>

\* The ranking table, the charts and the top-5 list are written.
MainRender ==
    /\ pc = "main_render"
    /\ ui' = Append(ui, "ranking")
    /\ pc' = "done"
    /\ UNCHANGED <<entry, exc, parseVars, searchVars, channels, analyzeVars>>

----------------------------------------------------------------------------

Next ==
    \/ CallParseDate
    \/ CallSearchChannels
    \/ SearchRequest
    \/ SearchRequestFails
    \/ SearchStep
    \/ StatsRequestFails
    \/ SearchReturn
    \/ CallAnalyze
    \/ AnalyzeStep
    \/ AnalyzeReturn
    \/ MainEmptyQuery
    \/ MainSearch
    \/ MainNoChannels
    \/ MainAnalyze
    \/ MainRender

Spec == Init /\ [][Next]_vars

----------------------------------------------------------------------------
(* Properties *)

Ids(rs) == [i \in DOMAIN rs |-> rs[i].channel_id]

Count(ids, id) == Cardinality({i \in DOMAIN ids : ids[i] = id})

\* The analyzer is running or has run.
Analyzing == analyzeCalls = 1

\* The elapsed whole days of a channel at clock reading now, when its
\* creation date parses to a naive datetime; -1000 stands for "no such
\* number" (the date does not parse, or parses to an aware datetime).
ElapsedDays(channel, now) ==
    LET p == parse_date(channel.published_at)
    IN  IF p.exc = "none" /\ ~p.val.aware
        THEN DaysBetween(Naive(now), p.val)
        ELSE -1000

\* A channel created less than a whole day before the clock readings of the
\* call, from its start to the latest one.
CreatedToday(channel) ==
    /\ ElapsedDays(channel, started_at) = 0
    /\ ElapsedDays(channel, clock) = 0

\* C1: a channel created less than one whole day before the analysis is
\* handled by a policy (left out, or counted as one day old) and its pass of
\* the loop completes normally; the call never ends in a division fault.
C1_SameDayChannelHandled ==
    Analyzing =>
        \A k \in 1..aidx :
            CreatedToday(channels[k]) =>
                /\ exc = "none"
                /\ \A i \in 1..Len(results) :
                      results[i].channel_id = channels[k].channel_id
                          => results[i].days_since_creation = 1

\* C2: every record of the returned ranking has days_since_creation > 0
\* and a growth_rate >= 0, also for a channel created after the analysis.
C2_RankingHasPositiveDaysAndRates ==
    analyze_ret # << >> =>
        \A i \in 1..Len(analyze_ret[1]) :
            /\ analyze_ret[1][i].days_since_creation > 0
            /\ analyze_ret[1][i].growth_rate.num >= 0

\* C3: the sequence analyze_channels_growth returns is descending by
\* growth_rate: each record's rate is at least the next one's.
C3_SortedDescending ==
    analyze_ret # << >> =>
        \A i \in 1..(Len(analyze_ret[1]) - 1) :
            LET a == analyze_ret[1][i].growth_rate
                b == analyze_ret[1][i + 1].growth_rate
            IN  a.num * b.den >= b.num * a.den

\* A ranking of three records returned in another order than the input's.
C3_Witness ==
    /\ analyze_ret # << >>
    /\ Len(analyze_ret[1]) = 3
    /\ Ids(analyze_ret[1]) # Ids(channels)
    /\ analyze_ret[1][1].growth_rate # analyze_ret[1][3].growth_rate

\* The matches the filter is meant to keep, from the meaning of the
\* timestamps: stats found and lo <= instant <= hi, in upstream order.
InsideRange(id, lo, hi) ==
    /\ StatsOf(id).found
    /\ lo <= InstantOf(StatsOf(id).published_at)
    /\ InstantOf(StatsOf(id).published_at) <= hi

ExpectedIds(ids, lo, hi) == SelectSeq(ids, LAMBDA id : InsideRange(id, lo, hi))

\* C4: with min_date and max_date given, search_channels returns exactly the
\* matches whose stats were found and whose creation instant lies in
\* [min_date, max_date], both ends included, in upstream order; a match
\* without stats is passed over and raises nothing.
C4_SearchReturnsFilteredInOrder ==
    /\ (search_ret # << >> /\ min_date # << >> /\ max_date # << >>) =>
          /\ Ids(search_ret[1]) = ExpectedIds(items, min_date[1].t, max_date[1].t)
          /\ \A i \in 1..Len(search_ret[1]) :
                <<search_ret[1][i]>> = get_channel_stats(search_ret[1][i].channel_id)
    /\ (exc \in {"ValueError", "TypeError"} /\ ~Analyzing /\ entry # "parse_date") =>
          StatsOf(items[idx]).found

\* A return that kept a match created exactly at max_date, dropped one
\* created later and passed over one without stats.
C4_Witness ==
    /\ search_ret # << >>
    /\ min_date # << >>
    /\ max_date # << >>
    /\ items = <<"UC_gone", "UC_edge", "UC_today">>
    /\ Ids(search_ret[1]) = <<"UC_edge">>
    /\ InstantOf(StatsOf("UC_edge").published_at) = max_date[1].t

\* C5: the ways of writing one instant that parse_date accepts all parse to
\* equal datetimes.
C5_ShapesParseEqual ==
    (entry = "parse_date" /\ pc = "done" /\ exc = "none") =>
        \A s \in DateStrings :
            (s.form = "iso" /\ InstantOf(s) = InstantOf(date_str)) =>
                /\ parse_date(s).exc = "none"
                /\ DatetimeEq(parse_date(s).val, parsed[1])

\* A text in none of the accepted shapes.
Unrecognised(s) == s.form = "garbage"

\* C6: for a timestamp in none of the accepted shapes parse_date raises and
\* returns no datetime; in search_channels and analyze_channels_growth the
\* pass that meets such a timestamp ends the call with that exception, and
\* no list is returned.
C6_UnrecognisedTimestampFails ==
    /\ (entry = "parse_date" /\ pc = "done" /\ Unrecognised(date_str)) =>
          exc = "ValueError" /\ parsed = << >>
    /\ \A k \in 1..idx :
          (StatsOf(items[k]).found /\ Unrecognised(StatsOf(items[k]).published_at)) =>
              /\ k = idx
              /\ exc = "ValueError"
              /\ pc = "done"
              /\ search_ret = << >>
              /\ analyzeCalls = 0
              /\ ui = << >>
    /\ Analyzing =>
          \A k \in 1..aidx :
              Unrecognised(channels[k].published_at) =>
                  /\ k = aidx
                  /\ exc = "ValueError"
                  /\ pc = "done"
                  /\ analyze_ret = << >>

\* search_channels ended by the bad timestamp of its second match, after the
\* first had been kept.
C6_Witness ==
    /\ entry = "search_channels"
    /\ pc = "done"
    /\ exc = "ValueError"
    /\ idx = 2
    /\ Unrecognised(StatsOf(items[2]).published_at)
    /\ Len(channels) = 1
    /\ search_ret = << >>

\* The input channels all have days_since_creation > 0.
AllDaysPositive ==
    \A k \in 1..Len(channels) : ElapsedDays(channels[k], started_at) > 0

\* C7: when every input channel has days_since_creation > 0 the analyzer
\* raises nothing and returns one record per input channel: as many records
\* as channels, each channel id as often as in the input; an empty input
\* gives an empty output.
C7_OneRecordPerChannel ==
    (Analyzing /\ AllDaysPositive) =>
        /\ exc = "none"
        /\ Len(results) = aidx
        /\ pc # "analyze_loop" =>
              /\ analyze_ret # << >>
              /\ Len(analyze_ret[1]) = Len(channels)
              /\ \A id \in ChannelIds :
                    Count(Ids(analyze_ret[1]), id) = Count(Ids(channels), id)

\* A return for an input that names one channel twice.
C7_Witness ==
    /\ entry = "analyze_channels_growth"
    /\ pc = "done"
    /\ AllDaysPositive
    /\ Len(channels) = 3
    /\ channels[1] = channels[3]
    /\ channels[1] # channels[2]
    /\ analyze_ret # << >>

SameRate(a, b) == a.num * b.den = b.num * a.den

WithRate(rs, q) == SelectSeq(rs, LAMBDA r : SameRate(r.growth_rate, q))

\* C8: the sort keeps records of equal growth_rate in their input order:
\* the records of each rate appear in the returned list as they appeared in
\* the list before the sort.
C8_SortIsStable ==
    [][(pc = "analyze_loop" /\ analyze_ret' # << >>) =>
          \A i \in 1..Len(results) :
              WithRate(analyze_ret'[1], results[i].growth_rate)
                  = WithRate(results, results[i].growth_rate)]_vars

\* A ranking in which two different channels tie, the one given first
\* ahead, under a record of a higher rate that was given last.
C8_Witness ==
    /\ analyze_ret # << >>
    /\ Ids(channels) = <<"UC_tie", "UC_old", "UC_edge">>
    /\ Ids(analyze_ret[1]) = <<"UC_edge", "UC_tie", "UC_old">>
    /\ SameRate(analyze_ret[1][2].growth_rate, analyze_ret[1][3].growth_rate)

\* search_channels is running or has run.
Searching == entry \in {"search_channels", "main"} /\ pc # "idle" /\ query # ""

FailureNotices == {"failure_search", "failure_analysis"}

\* C10: a run of main ends in one outcome: without a query the prompt, and
\* no request; with no channel left after filtering the empty-result notice,
\* and no analysis; after an exception a failure notice that names the
\* operation that failed.
C10_RunEndsInItsOutcome ==
    (entry = "main" /\ pc = "done") =>
        /\ query = "" =>
              /\ ui = <<"warning_enter_query">>
              /\ searchRequests = 0
              /\ statsLog = << >>
        /\ (search_ret = << << >> >>) =>
              /\ ui = <<"error_no_channels">>
              /\ analyzeCalls = 0
        /\ exc # "none" =>
              /\ ui # << >>
              /\ ui[Len(ui)] \in FailureNotices

============================================================================
